---- MODULE Spec2Model ----
(***************************************************************************)
(* Approval workflow of the BD research agent:                             *)
(*   src/src/services/bd-hubspot-integration.js  (BDHubSpotIntegration)    *)
(*   src/cursor-webhook-agent.js                 (POST /interactivity)     *)
(*   src/unnamed/part_004                        (SlackShortcuts)          *)
(* and lead scoring:                                                       *)
(*   src/src/automations/sports-club-prospector.js                         *)
(*                                                                         *)
(* Spec is the webhook agent with its one BDHubSpotIntegration; TwoStores  *)
(* adds the BDHubSpotIntegration that SlackShortcuts constructs; Scoring   *)
(* is scoreAndQualifyLeads called on prospect lists.  Live is Spec with    *)
(* the fairness of timers and awaits; Batch is processQualifiedLeads on    *)
(* longer lists, with restarts; Callers adds the caller's writes to its    *)
(* lead objects;                                                           *)
(* Interactivity adds the payloads that do not reach handleSlackApproval.  *)
(*                                                                         *)
(* The other services, each a specification of its own:                    *)
(*   Webhook       POST /webhook          (src/cursor-webhook-agent.js)    *)
(*   Retry         retry                  (src/src/shared/utils/index.js)  *)
(*   Orchestrator  runAutomation, metrics (src/unnamed/part_002, 003, 005) *)
(*   Dashboard     dashboard counters     (src/enhanced-webhook-agent.js)  *)
(*                                                                         *)
(* The process is single-threaded: every action below is one synchronous   *)
(* segment of a handler, from one await to the next.  The CRM (HubSpot),   *)
(* Slack and the file system are the environment: each call to them        *)
(* succeeds or fails nondeterministically.  Async methods exclude nothing: *)
(* several calls of one method are in flight at once and interleave at     *)
(* their awaits.                                                           *)
(***************************************************************************)
EXTENDS Integers, Sequences, FiniteSets, TLC

\* ------------------------------------------------------------- bounds
MaxApprovals == 1       \* approval ids ever generated
MaxEvents    == 4       \* registrations of leads, decision callbacks, process
                        \* restarts and failures of the CRM, Slack and the file
                        \* system, taken together

MaxQuickAdds  == 1      \* leads added through the Slack shortcut
MaxFacilities == 10     \* facilities of a prospect
MaxAgeGroups  == 4      \* age groups of a prospect
MaxRuns       == 2      \* scoreAndQualifyLeads calls
MaxYears      == 1      \* new years the clock passes
MaxBatch      == 3      \* leads passed to processQualifiedLeads, in all
MaxRetries    == 3      \* the retries argument of retry
MaxOrchRuns   == 2      \* runAutomation calls on an orchestrator
MaxDashLeads  == 2      \* lead ids the enhanced webhook agent sees
MaxDashCalls  == 4      \* processNewLead and handleApprovalAction calls
MaxHookEvents == 4      \* events in the body of a POST /webhook request

\* The approval ids of a run: those the agent's processQualifiedLeads calls
\* generate, then those of the SlackShortcuts' instance.
Ids   == 1..(MaxBatch + MaxQuickAdds)
Users == {"alice"}
Actions == {"create_hubspot_deal", "skip_lead"}

\* ------------------------------------------------------------- values
\* A JavaScript value that JSON treats specially carries its type in t.
Undefined     == [t |-> "undefined", v |-> 0]
JsString(ms)  == [t |-> "String", v |-> ms]      \* the ISO string of time ms

NoHubspotResult == [t |-> "undefined", contactId |-> 0, dealId |-> 0]

\* ------------------------------------------------------------- scoring
\* new Date().getFullYear() when the process starts.
ThisYear == 2026

Min(a, b) == IF a <= b THEN a ELSE b

\* The five factors of calculateLeadScore, as the code adds them to score.
ReachPoints(prospect) ==
  IF prospect.estimatedAthletes >= 300 THEN 40
  ELSE IF prospect.estimatedAthletes >= 200 THEN 30
  ELSE IF prospect.estimatedAthletes >= 100 THEN 20
  ELSE 10

CompetitionPoints(prospect) ==
  IF prospect.competitionLevel = "National" THEN 25
  ELSE IF prospect.competitionLevel = "State" THEN 20
  ELSE IF prospect.competitionLevel = "Regional" THEN 15
  ELSE 10

FacilityPoints(prospect) == Min(prospect.facilities * 2, 15)

AgeGroupPoints(prospect) == Len(prospect.ageGroups) * 3

EstablishedPoints(prospect, thisYear) ==
  LET yearsInBusiness == thisYear - prospect.foundedYear
  IN  IF yearsInBusiness >= 15 THEN 10
      ELSE IF yearsInBusiness >= 10 THEN 8
      ELSE IF yearsInBusiness >= 5 THEN 6
      ELSE 4

\* score before the last line of calculateLeadScore.
SumOfFactors(prospect, thisYear) ==
  ReachPoints(prospect) + CompetitionPoints(prospect) + FacilityPoints(prospect)
    + AgeGroupPoints(prospect) + EstablishedPoints(prospect, thisYear)

\* Variant that returns the sum as it is.
calculateLeadScore_NoCap(prospect, thisYear) == SumOfFactors(prospect, thisYear)

\* calculateLeadScore, called in year thisYear.
calculateLeadScore(prospect, thisYear) ==
  Min(SumOfFactors(prospect, thisYear), 100)

Priority(score) ==
  IF score >= 80 THEN "High" ELSE IF score >= 70 THEN "Medium" ELSE "Low"

\* { ...prospect, score, qualificationDate, priority }
QualifiedLead(prospect, score) ==
  [score |-> score, qualificationDate |-> JsString(0),
   priority |-> Priority(score)] @@ prospect

\* Variant whose gate is strict.
Qualifies_Above(score) == score > 60

\* The gate of scoreAndQualifyLeads.
Qualifies(score) == score >= 60

\* Array.prototype.sort with (a, b) => b.score - a.score: descending and
\* stable, so a lead goes behind the leads whose score is not smaller.
InsertByScore(lead, sorted) ==
  LET n == Cardinality({i \in DOMAIN sorted : sorted[i].score >= lead.score})
  IN  SubSeq(sorted, 1, n) \o <<lead>> \o SubSeq(sorted, n + 1, Len(sorted))

RECURSIVE SortByScore(_)
SortByScore(leads) ==
  IF leads = <<>> THEN <<>>
  ELSE InsertByScore(leads[Len(leads)],
                     SortByScore(SubSeq(leads, 1, Len(leads) - 1)))

AgeGroupNames == <<"Youth", "High School", "College Prep", "Adult", "Masters",
                   "Seniors", "Juniors", "Toddlers">>

AgeGroups(n) == SubSeq(AgeGroupNames, 1, n)

\* The prospects leads are made of: a national academy of 450 athletes and a
\* regional training center, in turn.
Prospect(k) ==
  IF k % 2 = 1
    THEN [clubName |-> "Elite Soccer Academy", estimatedAthletes |-> 450,
          competitionLevel |-> "National", facilities |-> 3,
          ageGroups |-> AgeGroups(3), foundedYear |-> 2008]
    ELSE [clubName |-> "Metro Basketball", estimatedAthletes |-> 200,
          competitionLevel |-> "Regional", facilities |-> 2,
          ageGroups |-> AgeGroups(2), foundedYear |-> 2015]

\* Qualified leads as scoreAndQualifyLeads builds them: strings, finite
\* numbers and an ISO date string.  Lead(k) is the k-th lead the process is
\* given; leads alternate between High and Low priority.
Lead(k) == QualifiedLead(Prospect(k), calculateLeadScore(Prospect(k), ThisYear))

NotFoundMessage == "Approval ID not found or expired"
CrmErrorMessage == "HubSpot API error"
SlackErrorMessage == "Slack returned 500"

VARIABLES
  pendingApprovals,   \* this.pendingApprovals: id -> Approval (the Map)
  approvalsFile,      \* data/pending-approvals.json: id -> Approval as JSON
  calls,              \* the handleSlackApproval calls in flight
  last,               \* the handleSlackApproval call that finished in the last step
  timers,             \* id -> the pending 24h cleanup timers, by the decision
                      \* that armed them
  pql,                \* the processQualifiedLeads calls in flight, and the
                      \* one that returned in the last step
  nextId,             \* approval ids generated so far
  contacts,           \* the CRM: approval id -> contacts createLead has
                      \* returned for its lead
  events,             \* registrations, callbacks, restarts and failures so far
  shortcutsApprovals, \* pendingApprovals of the SlackShortcuts' instance
  quickAdds,          \* leads added through the shortcut so far
  prospects,          \* the list scoreAndQualifyLeads is called with
  year,               \* new Date().getFullYear()
  runs,               \* the scoreAndQualifyLeads calls made, returned or not
  request,            \* the last POST /interactivity request that did not
                      \* reach handleSlackApproval, and what was answered
  hook,               \* the POST /webhook request being handled
  rt,                 \* a call of retry(fn, retries, delay)
  orch,               \* an orchestrator, its runs and the metrics
  dash                \* dashboardData of the enhanced webhook agent

vars == <<pendingApprovals, approvalsFile, calls, last, timers, pql,
          nextId, contacts, events, shortcutsApprovals, quickAdds, prospects,
          year, runs,
          request, hook, rt, orch, dash>>

\* What the webhook agent's handlers do not touch, and what scoring does not.
shortcutsVars == <<shortcutsApprovals, quickAdds>>
scoringVars   == <<prospects, year, runs>>
agentVars     == <<pendingApprovals, approvalsFile, calls, last, timers, pql,
                   nextId, contacts, events>>
\* The other services of the repository, each with its own state.
serviceVars   == <<request, hook, rt, orch, dash>>

\* new Date(): the instants of a run are not told apart.
Now == [t |-> "Date", v |-> 0]

\* ------------------------------------------------------------- JSON
\* JSON.stringify: a Date becomes its ISO string (Date.prototype.toJSON);
\* strings and finite numbers are kept; undefined properties are omitted
\* (read back as undefined).
JsonValue(x) == IF x.t = "Date" THEN JsString(x.v) ELSE x

JsonLead(l) == [l EXCEPT !.qualificationDate = JsonValue(@)]

JsonApproval(a) ==
  [leadData      |-> JsonLead(a.leadData),
   createdAt     |-> JsonValue(a.createdAt),
   status        |-> a.status,
   approvedBy    |-> a.approvedBy,
   approvedAt    |-> JsonValue(a.approvedAt),
   hubspotResult |-> a.hubspotResult,
   skippedBy     |-> a.skippedBy,
   skippedAt     |-> JsonValue(a.skippedAt)]

\* JSON.stringify(Array.from(this.pendingApprovals.entries()))
JsonStringify(map) == [id \in DOMAIN map |-> JsonApproval(map[id])]

\* What becomes of fs.writeFileSync(file, json): the file is written; the call
\* fails before the file is opened (EACCES, a missing directory mkdirSync
\* could not make); or it fails once the file is open, and opening truncates
\* (flag 'w'): ENOSPC, EFBIG, EIO.
WriteOutcomes == {"written", "failed", "truncated"}

\* A file the write was cut short in: zero bytes, or the head of the JSON
\* text.  It holds no approval, and it is no JSON text.
Truncated == [id \in {0} |-> [status |-> "truncated"]]

\* savePendingApprovals: writeFileSync rewrites the file in place; an error is
\* caught and logged, and the file is left as the failed call left it.
savePendingApprovals(map, write) ==
  CASE write = "written" -> JsonStringify(map)
    [] write = "failed"  -> approvalsFile
    [] OTHER             -> Truncated

\* loadPendingApprovals: new Map(JSON.parse(file)); JSON.parse throws on a
\* file that is no JSON text, the catch logs 'starting fresh' and the Map
\* stays empty.
loadPendingApprovals(file) == IF file = Truncated THEN <<>> ELSE file

\* ------------------------------------------------------------- initial state
NoReturn == [kind |-> "none", success |-> FALSE, message |-> "", error |-> "",
             hubspotResult |-> NoHubspotResult]

NoCall ==
  [n |-> 0, approvalId |-> 0, action |-> "", userName |-> "", pc |-> "none",
   statusAtArrival |-> "none", afterApprove |-> FALSE,
   crmCalls |-> 0, crmOutcome |-> "none", confirmOutcome |-> "none",
   notifications |-> 0, saved |-> "none",
   ret |-> NoReturn, http |-> "none", log |-> "none"]

\* res of a request: writeHead calls that stored the header, res.end calls,
\* the text answered, and whether the async callback ended in a rejection.
NoResponse == [heads |-> 0, ended |-> 0, text |-> "", rejected |-> FALSE]

NoPayload == [parses |-> FALSE, hasActions |-> FALSE, hasUser |-> FALSE,
              action_id |-> "", hasText |-> FALSE]

NoRequest == [received |-> FALSE, payload |-> NoPayload, res |-> NoResponse,
              exited |-> FALSE]

NoHook == [pc |-> "idle", parses |-> FALSE, events |-> <<>>, i |-> 0,
           raised |-> FALSE, logged |-> "", status |-> 0, body |-> ""]

NoRetry == [pc |-> "none", retries |-> 0, delay |-> 0, fn |-> <<>>, i |-> 0,
            calls |-> 0, sleeps |-> <<>>, ret |-> Undefined, err |-> Undefined]

\* An orchestrator with one automation loaded, the runAutomation calls made
\* on it, and the module's MetricsCollector: automationRuns by key, with the
\* clock in milliseconds the keys are made of, and successCounts, errorCounts
\* and executionTimes of that automation.
NoOrch ==
  [kind |-> "none", claudeEnv |-> FALSE, calls |-> 0, clock |-> 0,
   runs |-> <<>>, automationRuns |-> <<>>,
   successCount |-> 0, errorCount |-> 0, executionTimes |-> 0,
   returned |-> 0, thrown |-> 0]

\* A runAutomation call before its first statement.
NoRun ==
  [key |-> 0, scheduled |-> FALSE, pc |-> "start", outcome |-> "none",
   error |-> "none", failureLogged |-> FALSE, alerts |-> 0, issues |-> 0,
   callbackLogged |-> FALSE]

\* dashboardData: leads (id -> the lead object: its status, its CRM contact
\* id, and which object it is), the metrics, the approval records by key, and
\* with them the clock in milliseconds, the handleApprovalAction calls that
\* await, and the calls made.
NoDashboard ==
  [leads |-> <<>>,
   metrics |-> [totalLeads |-> 0, approvedLeads |-> 0, rejectedLeads |-> 0,
                pendingLeads |-> 0],
   approvals |-> <<>>, clock |-> 0, awaiting |-> {}, calls |-> 0]

NoTimers == [id \in Ids |-> [approved |-> 0, skipped |-> 0]]

\* A processQualifiedLeads call before its first lead: its list, the index
\* of the lead in hand, the ids generated for the leads so far, the results.
\* Calls in flight differ in their ids.
NoPql == [pc |-> "start", leads |-> <<>>, i |-> 0, ids |-> <<>>,
          results |-> <<>>]

\* The constructor: an empty Map, then loadPendingApprovals; no file yet.
InitAgent ==
  /\ approvalsFile = <<>>
  /\ pendingApprovals = loadPendingApprovals(<<>>)
  /\ calls = {}
  /\ last = NoCall
  /\ timers = NoTimers
  /\ pql = {}
  /\ nextId = 0
  /\ contacts = <<>>
  /\ events = 0

\* SlackShortcuts' constructor makes its own BDHubSpotIntegration, which loads
\* the same file.
InitShortcuts ==
  /\ shortcutsApprovals = loadPendingApprovals(<<>>)
  /\ quickAdds = 0

\* No scoring call is made.
InitNoScoring ==
  /\ prospects = <<>>
  /\ year = ThisYear
  /\ runs = <<>>

\* No request has been received by the other services.
InitServices ==
  /\ request = NoRequest
  /\ hook = NoHook
  /\ rt = NoRetry
  /\ orch = NoOrch
  /\ dash = NoDashboard

Init == InitAgent /\ InitShortcuts /\ InitNoScoring /\ InitServices

\* ------------------------------------------------------------- helpers
\* Once a processQualifiedLeads call has returned, its caller takes the
\* results: the calls still in flight.
Settle(cs) == {c \in cs : c.pc # "returned"}

\* The leads the calls in flight have yet to register.
RECURSIVE ToRegister(_)
ToRegister(cs) ==
  IF cs = {} THEN 0
  ELSE LET c == CHOOSE x \in cs : TRUE
       IN  Len(c.leads) - c.i + ToRegister(cs \ {c})

\* The ids a bound of max leaves for a new call.
Room(max) == max - nextId - ToRegister(Settle(pql))

\* k more events: registrations, callbacks, restarts, failures of the
\* environment.
Event(k) == /\ events + k <= MaxEvents
            /\ events' = events + k

Fault(k) == Event(k)

WriteFault(write) == IF write = "written" THEN 0 ELSE 1

\* The approval object a call holds is the Map's entry for as long as the
\* entry is in the Map; once a cleanup timer has deleted it, the call writes to
\* an object nothing else reads.
SetFields(id, upd) ==
  IF id \in DOMAIN pendingApprovals
    THEN [pendingApprovals EXCEPT ![id] = upd @@ @]
    ELSE pendingApprovals

Remove(map, id) == [k \in DOMAIN map \ {id} |-> map[k]]

NewApproval(lead) ==
  [leadData |-> lead, createdAt |-> Now, status |-> "pending",
   approvedBy |-> "", approvedAt |-> Undefined,
   hubspotResult |-> NoHubspotResult,
   skippedBy |-> "", skippedAt |-> Undefined]

\* Calls in flight are told apart by a slot number, the least one free.
FreeSlot == CHOOSE k \in 1..(Cardinality(calls) + 1) :
              /\ \A c \in calls : c.n # k
              /\ \A j \in 1..(k - 1) : \E c \in calls : c.n = j

NewCall(id, action, userName) ==
  [NoCall EXCEPT
     !.n = FreeSlot, !.approvalId = id, !.action = action,
     !.userName = userName, !.pc = "done",
     !.statusAtArrival = IF id \in DOMAIN pendingApprovals
                           THEN pendingApprovals[id].status ELSE "absent",
     !.afterApprove = timers[id].approved > 0]

\* ------------------------------------------------------------- POST /interactivity
\* What the /interactivity handler does with a rejected handleSlackApproval:
\* the approve branch has answered already and logs it in .catch; the skip
\* branch answers with the error message.
HandlerOnThrow(action) ==
  IF action = "create_hubspot_deal"
    THEN [http |-> "processing", log |-> "error_logged"]
    ELSE [http |-> "error_skipping_lead", log |-> "none"]

\* ... and with a returned result.
HandlerOnReturn(action) ==
  IF action = "create_hubspot_deal"
    THEN [http |-> "processing", log |-> "result_logged"]
    ELSE [http |-> "lead_skipped", log |-> "none"]

\* The call c ends with ret; the handler takes the result or the rejection.
Finish(c, ret, more) ==
  LET h == IF ret.kind = "throw" THEN HandlerOnThrow(c.action)
                                ELSE HandlerOnReturn(c.action)
  IN  /\ calls' = calls \ {c}
      /\ last' = more @@ [pc |-> "done", ret |-> ret,
                          http |-> h.http, log |-> h.log] @@ c

Throw(msg) == [NoReturn EXCEPT !.kind = "throw", !.error = msg]

\* Variant without the guard of line 195: the call goes on with an undefined
\* approval and dies on its first property access.
ApprovalNotFound_NoGuard(id, action, userName) ==
  /\ Event(1)
  /\ id \notin DOMAIN pendingApprovals
  /\ LET h == HandlerOnThrow(action)
     IN last' = [NewCall(id, action, userName) EXCEPT
                   !.ret = Throw("Cannot read properties of undefined"),
                   !.http = h.http, !.log = h.log]
  /\ pql' = Settle(pql)
  /\ UNCHANGED <<pendingApprovals, approvalsFile, calls, timers, nextId, contacts>>
  /\ UNCHANGED <<shortcutsVars, scoringVars, serviceVars>>

\* handleSlackApproval for an id that is not in the Map: throws at once.
ApprovalNotFound(id, action, userName) ==
  /\ Event(1)
  /\ id \notin DOMAIN pendingApprovals
  /\ LET h == HandlerOnThrow(action)
     IN last' = [NewCall(id, action, userName) EXCEPT
                   !.ret = Throw(NotFoundMessage), !.http = h.http, !.log = h.log]
  /\ pql' = Settle(pql)
  /\ UNCHANGED <<pendingApprovals, approvalsFile, calls, timers, nextId, contacts>>
  /\ UNCHANGED <<shortcutsVars, scoringVars, serviceVars>>

\* Variant in which the handler awaits the decision before it answers.
ApproveStart_AwaitFirst(id, userName) ==
  /\ Event(1)
  /\ id \in DOMAIN pendingApprovals
  /\ calls' = calls \cup
       {[NewCall(id, "create_hubspot_deal", userName) EXCEPT
           !.pc = "awaitCRM", !.crmCalls = 1]}
  /\ last' = NoCall
  /\ pql' = Settle(pql)
  /\ UNCHANGED <<pendingApprovals, approvalsFile, timers, nextId, contacts>>
  /\ UNCHANGED <<shortcutsVars, scoringVars, serviceVars>>

\* action_id create_hubspot_deal: the handler answers Slack, then calls
\* handleSlackApproval, which runs up to hubspotService.createLead.
ApproveStart(id, userName) ==
  /\ Event(1)
  /\ id \in DOMAIN pendingApprovals
  /\ calls' = calls \cup
       {[NewCall(id, "create_hubspot_deal", userName) EXCEPT
           !.pc = "awaitCRM", !.crmCalls = 1, !.http = "processing"]}
  /\ last' = NoCall
  /\ pql' = Settle(pql)
  /\ UNCHANGED <<pendingApprovals, approvalsFile, timers, nextId, contacts>>
  /\ UNCHANGED <<shortcutsVars, scoringVars, serviceVars>>

\* Variant in which createLead returns no identifiers.
NewContact_Nothing(id) == NoHubspotResult

\* What createLead returns: the identifiers the CRM gives the new contact and
\* deal, which differ from those of any contact it created for the lead
\* before, whatever the Map still holds of them.
NewContact(id) ==
  LET k == IF id \in DOMAIN contacts THEN contacts[id] + 1 ELSE 1
  IN  [t |-> "object", contactId |-> k, dealId |-> k]

\* createLead returned: the approval is marked approved, then the
\* confirmation is sent.
CrmSucceeds(c) ==
  /\ c \in calls
  /\ c.pc = "awaitCRM"
  /\ LET id  == c.approvalId
         hub == NewContact(id)
     IN /\ contacts' = [i \in DOMAIN contacts \cup {id} |->
                          IF i = id THEN hub.contactId ELSE contacts[i]]
        /\ pendingApprovals' = SetFields(id,
             [status |-> "approved", approvedBy |-> c.userName,
              approvedAt |-> Now, hubspotResult |-> hub])
        /\ calls' = (calls \ {c}) \cup
             {[c EXCEPT !.pc = "awaitDealNotify", !.crmOutcome = "ok",
                        !.notifications = @ + 1,
                        !.ret = [NoReturn EXCEPT !.hubspotResult = hub]]}
  /\ last' = NoCall
  /\ pql' = Settle(pql)
  /\ UNCHANGED <<approvalsFile, timers, nextId, events>>
  /\ UNCHANGED <<shortcutsVars, scoringVars, serviceVars>>

\* createLead threw: caught at line 230, the error notification is sent.
CrmFails(c) ==
  /\ c \in calls
  /\ c.pc = "awaitCRM"
  /\ Fault(1)
  /\ calls' = (calls \ {c}) \cup
       {[c EXCEPT !.pc = "awaitErrNotify", !.crmOutcome = "failed",
                  !.notifications = @ + 1,
                  !.ret = [NoReturn EXCEPT !.error = CrmErrorMessage]]}
  /\ last' = NoCall
  /\ pql' = Settle(pql)
  /\ UNCHANGED <<pendingApprovals, approvalsFile, timers, nextId, contacts>>
  /\ UNCHANGED <<shortcutsVars, scoringVars, serviceVars>>

\* sendDealCreatedNotification resolved: save, arm the cleanup timer, return.
DealNotifyDelivered(c, write) ==
  /\ c \in calls
  /\ c.pc = "awaitDealNotify"
  /\ Fault(WriteFault(write))
  /\ approvalsFile' = savePendingApprovals(pendingApprovals, write)
  /\ timers' = [timers EXCEPT ![c.approvalId].approved = @ + 1]
  /\ Finish(c, [kind |-> "value", success |-> TRUE,
                message |-> "HubSpot deal created successfully", error |-> "",
                hubspotResult |-> c.ret.hubspotResult],
            [confirmOutcome |-> "ok",
             saved |-> IF write = "written" THEN "written" ELSE "write_failed"])
  /\ pql' = Settle(pql)
  /\ UNCHANGED <<pendingApprovals, nextId, contacts>>
  /\ UNCHANGED <<shortcutsVars, scoringVars, serviceVars>>

\* sendDealCreatedNotification rejected: the same catch block takes it for a
\* failed deal creation.
DealNotifyFails(c) ==
  /\ c \in calls
  /\ c.pc = "awaitDealNotify"
  /\ Fault(1)
  /\ calls' = (calls \ {c}) \cup
       {[c EXCEPT !.pc = "awaitErrNotify", !.confirmOutcome = "failed",
                  !.notifications = @ + 1,
                  !.ret = [NoReturn EXCEPT !.error = SlackErrorMessage]]}
  /\ last' = NoCall
  /\ pql' = Settle(pql)
  /\ UNCHANGED <<pendingApprovals, approvalsFile, timers, nextId, contacts>>
  /\ UNCHANGED <<shortcutsVars, scoringVars, serviceVars>>

\* sendErrorNotification resolved: return the failure result.
ErrNotifyDelivered(c) ==
  /\ c \in calls
  /\ c.pc = "awaitErrNotify"
  /\ Finish(c, [kind |-> "value", success |-> FALSE,
                message |-> "Failed to create HubSpot deal",
                error |-> c.ret.error,
                hubspotResult |-> NoHubspotResult], <<>>)
  /\ pql' = Settle(pql)
  /\ UNCHANGED <<pendingApprovals, approvalsFile, timers, nextId, contacts, events>>
  /\ UNCHANGED <<shortcutsVars, scoringVars, serviceVars>>

\* sendErrorNotification rejected inside the catch block: the call rejects.
ErrNotifyFails(c) ==
  /\ c \in calls
  /\ c.pc = "awaitErrNotify"
  /\ Fault(1)
  /\ Finish(c, Throw(SlackErrorMessage), <<>>)
  /\ pql' = Settle(pql)
  /\ UNCHANGED <<pendingApprovals, approvalsFile, timers, nextId, contacts>>
  /\ UNCHANGED <<shortcutsVars, scoringVars, serviceVars>>

\* action_id skip_lead: handleSlackApproval marks the approval skipped and
\* sends the skip notification.
SkipStart(id, userName) ==
  /\ Event(1)
  /\ id \in DOMAIN pendingApprovals
  /\ pendingApprovals' = SetFields(id,
       [status |-> "skipped", skippedBy |-> userName, skippedAt |-> Now])
  /\ calls' = calls \cup
       {[NewCall(id, "skip_lead", userName) EXCEPT
           !.pc = "awaitSkipNotify", !.notifications = 1]}
  /\ last' = NoCall
  /\ pql' = Settle(pql)
  /\ UNCHANGED <<approvalsFile, timers, nextId, contacts>>
  /\ UNCHANGED <<shortcutsVars, scoringVars, serviceVars>>

\* sendLeadSkippedNotification resolved: save, arm the cleanup timer, return.
SkipNotifyDelivered(c, write) ==
  /\ c \in calls
  /\ c.pc = "awaitSkipNotify"
  /\ Fault(WriteFault(write))
  /\ approvalsFile' = savePendingApprovals(pendingApprovals, write)
  /\ timers' = [timers EXCEPT ![c.approvalId].skipped = @ + 1]
  /\ Finish(c, [kind |-> "value", success |-> TRUE, message |-> "Lead skipped",
                error |-> "", hubspotResult |-> NoHubspotResult],
            [confirmOutcome |-> "ok",
             saved |-> IF write = "written" THEN "written" ELSE "write_failed"])
  /\ pql' = Settle(pql)
  /\ UNCHANGED <<pendingApprovals, nextId, contacts>>
  /\ UNCHANGED <<shortcutsVars, scoringVars, serviceVars>>

\* sendLeadSkippedNotification rejected: nothing catches it in
\* handleSlackApproval, the call rejects.
SkipNotifyFails(c) ==
  /\ c \in calls
  /\ c.pc = "awaitSkipNotify"
  /\ Fault(1)
  /\ Finish(c, Throw(SlackErrorMessage), [confirmOutcome |-> "failed"])
  /\ pql' = Settle(pql)
  /\ UNCHANGED <<pendingApprovals, approvalsFile, timers, nextId, contacts>>
  /\ UNCHANGED <<shortcutsVars, scoringVars, serviceVars>>

\* getApprovalById: this.pendingApprovals.get(approvalId)
getApprovalById(approvalId) ==
  IF approvalId \in DOMAIN pendingApprovals
    THEN pendingApprovals[approvalId] ELSE Undefined

\* Variant that time-boxes every approval: the timer is armed at registration.
CleanupTimer_Unresolved(id, kind, write) ==
  /\ id \in DOMAIN pendingApprovals
  /\ Fault(1 + WriteFault(write))
  /\ pendingApprovals' = Remove(pendingApprovals, id)
  /\ approvalsFile' = savePendingApprovals(Remove(pendingApprovals, id), write)
  /\ last' = NoCall
  /\ pql' = Settle(pql)
  /\ UNCHANGED <<calls, nextId, contacts, timers>>
  /\ UNCHANGED <<shortcutsVars, scoringVars, serviceVars>>

\* The setTimeout callback, 24 hours after a decision.
CleanupTimer(id, kind, write) ==
  /\ timers[id][kind] > 0
  /\ Fault(WriteFault(write))
  /\ timers' = [timers EXCEPT ![id][kind] = @ - 1]
  /\ pendingApprovals' = Remove(pendingApprovals, id)
  /\ approvalsFile' = savePendingApprovals(Remove(pendingApprovals, id), write)
  /\ last' = NoCall
  /\ pql' = Settle(pql)
  /\ UNCHANGED <<calls, nextId, contacts>>
  /\ UNCHANGED <<shortcutsVars, scoringVars, serviceVars>>

\* ------------------------------------------------------------- processQualifiedLeads
\* One turn of the loop up to its await: generate the id, put the pending
\* approval in the Map, save, and hand the prompt to Slack (the request is
\* written before sendSlackMessage returns its promise).  rest are the other
\* calls in flight.
RegisterLead(st, rest, map0, write) ==
  LET id   == nextId + 1
      lead == st.leads[st.i]
      map  == (id :> NewApproval(lead)) @@ map0
  IN  /\ pendingApprovals' = map
      /\ approvalsFile' = savePendingApprovals(map, write)
      /\ nextId' = id
      /\ UNCHANGED contacts
      /\ pql' = rest \cup {[st EXCEPT !.pc = "awaitPrompt",
                                      !.ids = Append(@, id)]}

\* After a lead's result is pushed: the next lead, or return results.  The
\* write outcome matters only when a lead is registered; k failures have
\* happened in this step already, and a registration is one more event.
NextLead(st, rest, map0, write, k) ==
  IF st.i < Len(st.leads)
    THEN /\ Event(1 + k + WriteFault(write))
         /\ RegisterLead([st EXCEPT !.i = @ + 1], rest, map0, write)
    ELSE /\ write = "written"
         /\ Fault(k)
         /\ pql' = rest \cup {[st EXCEPT !.pc = "returned"]}
         /\ pendingApprovals' = map0
         /\ UNCHANGED <<approvalsFile, nextId, contacts>>

\* A call of the async method: nothing keeps a second call from starting
\* while another awaits its prompt.
processQualifiedLeads(qualifiedLeads, write) ==
  /\ NextLead([NoPql EXCEPT !.leads = qualifiedLeads],
              Settle(pql), pendingApprovals, write, 0)
  /\ last' = NoCall
  /\ UNCHANGED <<calls, timers>>
  /\ UNCHANGED <<shortcutsVars, scoringVars, serviceVars>>

\* sendSlackApprovalRequest of call c resolved: push the approval_sent result.
PromptDelivered(c, write) ==
  /\ c \in pql
  /\ c.pc = "awaitPrompt"
  /\ NextLead([c EXCEPT !.results = Append(@,
                 [leadId |-> c.leads[c.i].clubName, approvalId |-> c.ids[c.i],
                  status |-> "approval_sent", error |-> ""])],
              Settle(pql) \ {c}, pendingApprovals, write, 0)
  /\ last' = NoCall
  /\ UNCHANGED <<calls, timers>>
  /\ UNCHANGED <<shortcutsVars, scoringVars, serviceVars>>

\* The catch block of the loop: what it does to the Map when the prompt of
\* approval id could not be sent.  Nothing: the approval stays registered.
OnPromptError(map, id) == map

\* Variant in which a failed prompt ends the loop: the results so far are
\* returned.
PromptFails_Abort(c, write) ==
  /\ c \in pql
  /\ c.pc = "awaitPrompt"
  /\ write = "written"
  /\ Fault(1)
  /\ pql' = (Settle(pql) \ {c}) \cup
              {[c EXCEPT !.pc = "returned", !.results = Append(@,
                 [leadId |-> c.leads[c.i].clubName, approvalId |-> 0,
                  status |-> "error", error |-> SlackErrorMessage])]}
  /\ last' = NoCall
  /\ UNCHANGED <<pendingApprovals, approvalsFile, nextId, contacts, calls, timers>>
  /\ UNCHANGED <<shortcutsVars, scoringVars, serviceVars>>

\* sendSlackApprovalRequest of call c rejected: the catch block logs the
\* error and pushes an error result.
PromptFails(c, write) ==
  /\ c \in pql
  /\ c.pc = "awaitPrompt"
  /\ NextLead([c EXCEPT !.results = Append(@,
                 [leadId |-> c.leads[c.i].clubName, approvalId |-> 0,
                  status |-> "error", error |-> SlackErrorMessage])],
              Settle(pql) \ {c}, OnPromptError(pendingApprovals, c.ids[c.i]),
              write, 1)
  /\ last' = NoCall
  /\ UNCHANGED <<calls, timers>>
  /\ UNCHANGED <<shortcutsVars, scoringVars, serviceVars>>

\* ------------------------------------------------------------- restart
\* The process ends and a new BDHubSpotIntegration is constructed: the Map is
\* what loadPendingApprovals reads; timers and running handlers are gone.
Restart ==
  /\ Event(1)
  /\ pendingApprovals' = loadPendingApprovals(approvalsFile)
  /\ timers' = NoTimers
  /\ calls' = {}
  /\ last' = NoCall
  /\ pql' = {}
  /\ UNCHANGED <<approvalsFile, nextId, contacts>>
  /\ UNCHANGED <<shortcutsVars, scoringVars, serviceVars>>

\* ------------------------------------------------------------- specification
\* The input lists: the first n leads of a research run, for every n the id
\* bound leaves room for.
LeadLists == { [k \in 1..n |-> Lead(k)] : n \in 1..Room(MaxApprovals) }

\* The approval ids callbacks carry (action.value): those of the prompts sent
\* by either instance, and ids the agent has not generated.
CallbackIds ==
  (1..MaxApprovals) \cup (1..nextId)
    \cup {MaxBatch + q : q \in 1..quickAdds}

Next ==
  \/ \E id \in CallbackIds, a \in Actions, u \in Users :
        ApprovalNotFound(id, a, u)
  \/ \E id \in Ids, u \in Users : ApproveStart(id, u)
  \/ \E id \in Ids, u \in Users : SkipStart(id, u)
  \/ \E c \in calls : CrmSucceeds(c)
  \/ \E c \in calls : CrmFails(c)
  \/ \E c \in calls, w \in WriteOutcomes : DealNotifyDelivered(c, w)
  \/ \E c \in calls : DealNotifyFails(c)
  \/ \E c \in calls : ErrNotifyDelivered(c)
  \/ \E c \in calls : ErrNotifyFails(c)
  \/ \E c \in calls, w \in WriteOutcomes : SkipNotifyDelivered(c, w)
  \/ \E c \in calls : SkipNotifyFails(c)
  \/ \E id \in Ids, k \in {"approved", "skipped"}, w \in WriteOutcomes :
        CleanupTimer(id, k, w)
  \/ \E l \in LeadLists, w \in WriteOutcomes : processQualifiedLeads(l, w)
  \/ \E c \in pql, w \in WriteOutcomes : PromptDelivered(c, w)
  \/ \E c \in pql, w \in WriteOutcomes : PromptFails(c, w)
  \/ Restart

Spec == Init /\ [][Next]_vars

\* What the event loop and the environment guarantee: a timer that is armed
\* fires, and a request to the CRM or to Slack is answered or fails.
CallProceeds ==
  \E c \in calls :
    \/ CrmSucceeds(c) \/ CrmFails(c)
    \/ DealNotifyFails(c) \/ ErrNotifyDelivered(c) \/ ErrNotifyFails(c)
    \/ SkipNotifyFails(c)
    \/ \E w \in WriteOutcomes : DealNotifyDelivered(c, w) \/ SkipNotifyDelivered(c, w)

TimerFires ==
  \E id \in Ids, k \in {"approved", "skipped"}, w \in WriteOutcomes :
    CleanupTimer(id, k, w)

Live == Spec /\ WF_vars(TimerFires) /\ WF_vars(CallProceeds)

\* ------------------------------------------------------------- batches of leads
\* processQualifiedLeads and restarts alone, with up to MaxBatch leads.
BatchLists == { [k \in 1..n |-> Lead(k)] : n \in 1..Room(MaxBatch) }

NextBatch ==
  \/ \E l \in BatchLists, w \in WriteOutcomes : processQualifiedLeads(l, w)
  \/ \E c \in pql, w \in WriteOutcomes : PromptDelivered(c, w)
  \/ \E c \in pql, w \in WriteOutcomes : PromptFails(c, w)
  \/ Restart

Batch == Init /\ [][NextBatch]_vars

\* ------------------------------------------------------------- the caller's lead objects
\* The caller of processQualifiedLeads assigns to a field of a lead object it
\* passed: lead.score = 0.  The object is held by the list of every call in
\* flight it was passed to, and by the Map's entry of every approval
\* registered for it by this process (leadData: lead, not a copy; after a
\* restart the entry holds what JSON.parse built).  Which equal leads are one
\* object is the caller's doing: ids are the entries that hold the object,
\* listed the places <<c, j>> of lists that hold it and whose lead has no
\* entry, not being registered yet or the entry having been deleted.
CallerChangesLead ==
  LET inMap(c, j) == j \in DOMAIN c.ids /\ c.ids[j] \in DOMAIN pendingApprovals
      entries == {id \in DOMAIN pendingApprovals :
                    pendingApprovals[id].createdAt.t = "Date"}
      places  == UNION {{<<c, j>> : j \in {k \in DOMAIN c.leads : ~inMap(c, k)}} :
                          c \in Settle(pql)}
  IN  \E ids \in SUBSET entries, listed \in SUBSET places :
        LET objects == {pendingApprovals[id].leadData : id \in ids}
                         \cup {p[1].leads[p[2]] : p \in listed}
        IN  /\ Cardinality(objects) = 1
            /\ \A lead \in objects : lead.score # 0
            /\ pendingApprovals' =
                 [id \in DOMAIN pendingApprovals |->
                    IF id \in ids
                      THEN [pendingApprovals[id] EXCEPT !.leadData.score = 0]
                      ELSE pendingApprovals[id]]
            /\ pql' = { [c EXCEPT !.leads =
                           [j \in DOMAIN c.leads |->
                              IF \/ <<c, j>> \in listed
                                 \/ j \in DOMAIN c.ids /\ c.ids[j] \in ids
                                THEN [c.leads[j] EXCEPT !.score = 0]
                                ELSE c.leads[j]]] : c \in Settle(pql) }
            /\ last' = NoCall
            /\ UNCHANGED <<approvalsFile, calls, timers, nextId, contacts,
                           events>>
            /\ UNCHANGED <<shortcutsVars, scoringVars, serviceVars>>

\* The agent with callers that pass lists of up to MaxBatch leads, in all.
NextCallers ==
  \/ Next
  \/ \E l \in BatchLists, w \in WriteOutcomes : processQualifiedLeads(l, w)
  \/ CallerChangesLead

Callers == Init /\ [][NextCallers]_vars

\* ------------------------------------------------------------- SlackShortcuts
\* The lead processQuickAddLead builds from the modal: score 75, one
\* facility, founded this year.
QuickAddLead ==
  [clubName |-> "Quick Add Club", estimatedAthletes |-> 120,
   competitionLevel |-> "Unknown", facilities |-> 1,
   ageGroups |-> <<"Unknown">>, foundedYear |-> ThisYear,
   score |-> 75, priority |-> "Medium", qualificationDate |-> JsString(0)]

\* processQuickAddLead: this.bdIntegration.processQualifiedLeads([leadData])
\* on the SlackShortcuts' own BDHubSpotIntegration: the approval goes into
\* that instance's Map, and the file is rewritten from that Map.  What the
\* prompt does afterwards changes neither.
ShortcutsQuickAddLead(write) ==
  /\ quickAdds < MaxQuickAdds
  /\ Fault(WriteFault(write))
  /\ LET id  == MaxBatch + quickAdds + 1
         map == (id :> NewApproval(QuickAddLead)) @@ shortcutsApprovals
     IN  /\ shortcutsApprovals' = map
         /\ approvalsFile' = savePendingApprovals(map, write)
  /\ quickAdds' = quickAdds + 1
  /\ last' = NoCall
  /\ pql' = Settle(pql)
  /\ UNCHANGED <<pendingApprovals, calls, timers, nextId, contacts, scoringVars,
                 serviceVars>>

\* A new SlackShortcuts is constructed: its BDHubSpotIntegration loads the
\* file.
ShortcutsStart ==
  /\ Event(1)
  /\ shortcutsApprovals' = loadPendingApprovals(approvalsFile)
  /\ last' = NoCall
  /\ pql' = Settle(pql)
  /\ UNCHANGED <<pendingApprovals, approvalsFile, calls, timers, nextId, contacts,
                 quickAdds, scoringVars, serviceVars>>

NextTwoStores ==
  \/ Next
  \/ \E w \in WriteOutcomes : ShortcutsQuickAddLead(w)
  \/ ShortcutsStart

TwoStores == Init /\ [][NextTwoStores]_vars

\* ------------------------------------------------------------- scoring runs
Prospects ==
  [clubName : {"Elite Academy"}, estimatedAthletes : {50, 100, 200, 300, 450},
   competitionLevel : {"National", "State", "Regional", "Local"},
   facilities : 0..MaxFacilities,
   ageGroups : {AgeGroups(n) : n \in 0..MaxAgeGroups},
   foundedYear : {2006, 2008, 2012, 2017, 2022}]

\* Prospects on either side of the qualification gate in ThisYear.
JustBelow == [clubName |-> "Elite Academy", estimatedAthletes |-> 100,
              competitionLevel |-> "Regional", facilities |-> 8,
              ageGroups |-> AgeGroups(1), foundedYear |-> 2017]
JustAbove == [clubName |-> "Elite Academy", estimatedAthletes |-> 100,
              competitionLevel |-> "State", facilities |-> 2,
              ageGroups |-> AgeGroups(2), foundedYear |-> 2006]

\* The lists scoreAndQualifyLeads is called with: every prospect alone, and
\* lists of two of a few prospects.
ProspectLists ==
  {<<p>> : p \in Prospects}
    \cup {<<p, q>> : p, q \in {JustBelow, JustAbove, Prospect(1), Prospect(2)}}

InitScoring ==
  /\ InitAgent
  /\ InitShortcuts
  /\ InitServices
  /\ prospects \in ProspectLists
  /\ year = ThisYear
  /\ runs = <<>>

\* A scoreAndQualifyLeads call before its loop: the index of the prospect in
\* hand, and for each prospect so far the year its calculateLeadScore call
\* read, what the call added and what it returned; qualifiedLeads.
NewRun == [pc |-> "start", i |-> 0, years |-> <<>>, factors |-> <<>>,
           scores |-> <<>>, leads |-> <<>>]

\* await this.calculateLeadScore(prospects[k]): the call runs to its end,
\* reading the clock, and the loop waits for its promise.
AwaitScore(run, k) ==
  [run EXCEPT
     !.pc = "awaitScore", !.i = k,
     !.years   = Append(@, year),
     !.factors = Append(@,
        [reach       |-> ReachPoints(prospects[k]),
         competition |-> CompetitionPoints(prospects[k]),
         facilities  |-> FacilityPoints(prospects[k]),
         ageGroups   |-> AgeGroupPoints(prospects[k]),
         established |-> EstablishedPoints(prospects[k], year)]),
     !.scores  = Append(@, calculateLeadScore(prospects[k], year))]

\* The next turn of the loop, or the sort and the return.
NextProspect(run) ==
  IF run.i < Len(prospects)
    THEN AwaitScore(run, run.i + 1)
    ELSE [run EXCEPT !.pc = "returned", !.leads = SortByScore(@)]

\* A call of scoreAndQualifyLeads(prospects), up to its first await.
ScoreAndQualify ==
  /\ Len(runs) < MaxRuns
  /\ runs' = Append(runs, NextProspect(NewRun))
  /\ UNCHANGED <<prospects, year, agentVars, shortcutsVars, serviceVars>>

\* The score of run r's prospect arrives: the gate, the push, and on to the
\* next prospect.
ScoreArrives(r) ==
  /\ runs[r].pc = "awaitScore"
  /\ LET run   == runs[r]
         score == run.scores[run.i]
         lead  == QualifiedLead(prospects[run.i], score)
     IN  runs' = [runs EXCEPT ![r] =
           NextProspect(IF Qualifies(score)
                          THEN [run EXCEPT !.leads = Append(@, lead)]
                          ELSE run)]
  /\ UNCHANGED <<prospects, year, agentVars, shortcutsVars, serviceVars>>

\* The clock passes the end of a year.
NewYear ==
  /\ year < ThisYear + MaxYears
  /\ year' = year + 1
  /\ UNCHANGED <<prospects, runs, agentVars, shortcutsVars, serviceVars>>

NextScoring ==
  \/ ScoreAndQualify
  \/ \E r \in DOMAIN runs : ScoreArrives(r)
  \/ NewYear

Scoring == InitScoring /\ [][NextScoring]_vars

\* ------------------------------------------------------------- POST /interactivity, the other payloads
\* The bodies Slack or anyone else may post: one that is not JSON, and parsed
\* payloads with or without actions[0], user, and the action's text.
Payloads ==
  {NoPayload} \cup
  [parses : {TRUE}, hasActions : BOOLEAN, hasUser : BOOLEAN,
   action_id : {"skip_lead", "view_details"}, hasText : BOOLEAN]

\* The statements of the try block before the branch on action_id throw on
\* these payloads: JSON.parse, payload.actions[0] / action.value, payload.user.id.
ThrowsBeforeBranch(payload) ==
  ~payload.parses \/ ~payload.hasActions \/ ~payload.hasUser

\* res.writeHead: stores the header; throws ERR_HTTP_HEADERS_SENT when the
\* header is stored already.
WriteHeadThrows(res) == res.heads > 0

writeHead(res) == [res EXCEPT !.heads = @ + 1]

\* res.end(JSON.stringify({text}))
end(res, text) == [res EXCEPT !.ended = @ + 1, !.text = text]

\* The outer catch block of the handler: writeHead, then end with the error
\* message.  When writeHead throws, res.end is not reached and the async
\* callback ends in a rejection that nothing handles.
OnInteractivityError(res) ==
  IF WriteHeadThrows(res)
    THEN [res EXCEPT !.rejected = TRUE]
    ELSE end(writeHead(res), "Error processing action")

\* The default branch: writeHead, then the argument of res.end is evaluated,
\* which reads action.text.text and throws when the action has no text.
DefaultBranch(payload, res) ==
  IF payload.hasText
    THEN end(writeHead(res), "You clicked")
    ELSE OnInteractivityError(writeHead(res))

\* The 'end' callback of a POST /interactivity request whose payload does not
\* reach handleSlackApproval.  The process has no unhandledRejection
\* listener: a rejection of the callback ends it, and with it the Map, the
\* calls in flight and the timers.
InteractivityRequest(payload) ==
  /\ ~request.exited
  /\ ThrowsBeforeBranch(payload) \/ payload.action_id \notin Actions
  /\ LET res == IF ThrowsBeforeBranch(payload)
                  THEN OnInteractivityError(NoResponse)
                  ELSE DefaultBranch(payload, NoResponse)
     IN  /\ request' = [received |-> TRUE, payload |-> payload, res |-> res,
                         exited |-> res.rejected]
         /\ pendingApprovals' = IF res.rejected THEN <<>> ELSE pendingApprovals
         /\ calls' = IF res.rejected THEN {} ELSE calls
         /\ timers' = IF res.rejected THEN NoTimers ELSE timers
         /\ pql' = IF res.rejected THEN {} ELSE Settle(pql)
  /\ last' = NoCall
  /\ UNCHANGED <<approvalsFile, nextId, contacts, events>>
  /\ UNCHANGED <<shortcutsVars, scoringVars, hook, rt, orch, dash>>

\* The process that ended is started again: the constructor loads the file.
Start ==
  /\ request.exited
  /\ Event(1)
  /\ request' = [request EXCEPT !.exited = FALSE]
  /\ pendingApprovals' = loadPendingApprovals(approvalsFile)
  /\ UNCHANGED <<approvalsFile, calls, last, timers, pql, nextId, contacts>>
  /\ UNCHANGED <<shortcutsVars, scoringVars, hook, rt, orch, dash>>

\* Nothing runs in a process that has ended.
NextInteractivity ==
  \/ ~request.exited /\ Next
  \/ \E payload \in Payloads : InteractivityRequest(payload)
  \/ Start

Interactivity == Init /\ [][NextInteractivity]_vars

\* ------------------------------------------------------------- POST /webhook
\* The events of a body, by what handling them does: "notify" events reach
\* await sendToSlack; "quiet" ones are logged only (an association change, an
\* unhandled subscription type, a property change nobody is told of);
\* "malformed" ones make the handler throw before any await (null, or a
\* creation event without properties).
EventLists ==
  UNION { [1..n -> {"notify", "quiet", "malformed"}] : n \in 0..MaxHookEvents }

\* The for loop of processHubSpotWebhook from event i on, up to its next await
\* or its end.  An exception leaves the loop for the catch block of
\* processHubSpotWebhook, which logs it and returns.
RECURSIVE ProcessEvents(_, _)
ProcessEvents(st, i) ==
  IF i > Len(st.events)
    THEN [st EXCEPT !.pc = "processed", !.i = i]
    ELSE IF st.events[i] = "quiet"
      THEN ProcessEvents(st, i + 1)
      ELSE IF st.events[i] = "malformed"
        THEN [st EXCEPT !.pc = "processed", !.i = i, !.raised = TRUE,
                        !.logged = "Error processing HubSpot webhook"]
        ELSE [st EXCEPT !.pc = "awaitSlack", !.i = i]

\* After await processHubSpotWebhook(data) in the handler: it has returned,
\* so the handler answers 200 {success: true}.
AfterProcess(st) ==
  IF st.pc = "processed"
    THEN [st EXCEPT !.pc = "done", !.status = 200, !.body = "success"]
    ELSE st

\* The 'end' callback of POST /webhook: JSON.parse, then processHubSpotWebhook;
\* a body that is not JSON goes to the handler's catch: 500 and the message.
WebhookRequest(parses, evs) ==
  /\ hook.pc \in {"idle", "done"}
  /\ ~parses => evs = <<>>
  /\ hook' = IF parses
               THEN AfterProcess(ProcessEvents(
                      [NoHook EXCEPT !.parses = TRUE, !.events = evs], 1))
               ELSE [NoHook EXCEPT !.pc = "done", !.logged = "Webhook error",
                                   !.status = 500,
                                   !.body = "Unexpected token"]
  /\ UNCHANGED <<agentVars, shortcutsVars, scoringVars, request, rt, orch,
                 dash>>

\* sendToSlack resolved: the loop goes on.
ForwardDelivered ==
  /\ hook.pc = "awaitSlack"
  /\ hook' = AfterProcess(ProcessEvents(hook, hook.i + 1))
  /\ UNCHANGED <<agentVars, shortcutsVars, scoringVars, request, rt, orch,
                 dash>>

\* sendToSlack rejected: the exception leaves the loop for the catch block of
\* processHubSpotWebhook.
ForwardFails ==
  /\ hook.pc = "awaitSlack"
  /\ hook' = AfterProcess([hook EXCEPT !.pc = "processed", !.raised = TRUE,
                             !.logged = "Error processing HubSpot webhook"])
  /\ UNCHANGED <<agentVars, shortcutsVars, scoringVars, request, rt, orch,
                 dash>>

NextWebhook ==
  \/ \E parses \in BOOLEAN, evs \in EventLists : WebhookRequest(parses, evs)
  \/ ForwardDelivered
  \/ ForwardFails

Webhook == Init /\ [][NextWebhook]_vars

\* ------------------------------------------------------------- retry
\* What a call of fn does: resolve with a value, reject with an Error, or
\* reject with undefined (reject() without a reason, throw undefined).
\* The k-th call's value, and what it throws.
ValueOf(k) == [t |-> "value", v |-> k]

ErrorOf(outcome, k) ==
  IF outcome = "Error" THEN [t |-> "Error", message |-> k] ELSE Undefined

\* error.message on undefined
TypeError == [t |-> "TypeError", message |-> 0]

RetryInputs ==
  { [NoRetry EXCEPT !.pc = "start", !.retries = r, !.delay = d, !.fn = f] :
      r \in 0..MaxRetries, d \in {1000, 250},
      f \in [1..MaxRetries -> {"value", "Error", "undefined"}] }

InitRetry ==
  /\ InitAgent /\ InitShortcuts /\ InitNoScoring
  /\ request = NoRequest
  /\ hook = NoHook
  /\ orch = NoOrch
  /\ dash = NoDashboard
  /\ rt \in RetryInputs

\* The head of the for loop: the next call of fn, or the end of the function.
LoopHead(st) ==
  IF st.i < st.retries
    THEN [st EXCEPT !.pc = "awaitFn", !.calls = @ + 1]
    ELSE [st EXCEPT !.pc = "returned", !.ret = Undefined]

\* The catch block: logger.warn reads error.message; then the last attempt
\* rethrows, any other sleeps delay * (i + 1).
OnRetryError(st, error) ==
  IF error = Undefined
    THEN [st EXCEPT !.pc = "thrown", !.err = TypeError]
    ELSE IF st.i = st.retries - 1
      THEN [st EXCEPT !.pc = "thrown", !.err = error]
      ELSE [st EXCEPT !.pc = "sleeping",
                      !.sleeps = Append(@, st.delay * (st.i + 1))]

RetryStart ==
  /\ rt.pc = "start"
  /\ rt' = LoopHead(rt)
  /\ UNCHANGED <<agentVars, shortcutsVars, scoringVars, request, hook, orch,
                 dash>>

\* await fn() settles.
FnSettles ==
  /\ rt.pc = "awaitFn"
  /\ rt' = IF rt.fn[rt.calls] = "value"
             THEN [rt EXCEPT !.pc = "returned", !.ret = ValueOf(rt.calls)]
             ELSE OnRetryError(rt, ErrorOf(rt.fn[rt.calls], rt.calls))
  /\ UNCHANGED <<agentVars, shortcutsVars, scoringVars, request, hook, orch,
                 dash>>

\* await sleep(...) is over: i++ and the loop head.
SleepDone ==
  /\ rt.pc = "sleeping"
  /\ rt' = LoopHead([rt EXCEPT !.i = @ + 1])
  /\ UNCHANGED <<agentVars, shortcutsVars, scoringVars, request, hook, orch,
                 dash>>

NextRetry == RetryStart \/ FnSettles \/ SleepDone

Retry == InitRetry /\ [][NextRetry]_vars

\* ------------------------------------------------------------- orchestrators
Orchestrators == {"AutomationOrchestrator", "MCPAutomationOrchestrator"}

\* Whether sendAutomationStatus of the SlackClient can reject: its callers
\* await it inside try blocks, and it posts to a webhook URL.
StatusNotificationMayFail == TRUE

\* What automation.execute rejects with: an Error, or undefined (reject()
\* without a reason, throw undefined); error.message of the latter throws a
\* TypeError.
ExecuteErrors == {"execute failed", "undefined"}
HasMessage(error) == error # "undefined"

InitOrchestrator ==
  /\ InitAgent /\ InitShortcuts /\ InitNoScoring
  /\ request = NoRequest
  /\ hook = NoHook
  /\ rt = NoRetry
  /\ dash = NoDashboard
  /\ orch \in { [NoOrch EXCEPT !.kind = k, !.claudeEnv = e] :
                  k \in Orchestrators, e \in BOOLEAN }

\* metrics.recordAutomationStart(name): the key is the name and Date.now(),
\* so a call in the millisecond of the call before it gets the same key and
\* writes its record over the other's.
recordAutomationStart(st, sameMs) ==
  LET key == IF sameMs THEN st.clock ELSE st.clock + 1
  IN  [st EXCEPT !.clock = key,
                 !.automationRuns = (key :> "running") @@ @]

\* metrics.recordAutomationEnd(key, status): nothing when no run is recorded
\* under the key; else the run's status, one more execution time, and one
\* more in successCounts or errorCounts, however often the function is called
\* for the key.
recordAutomationEnd(st, key, status) ==
  IF key \notin DOMAIN st.automationRuns THEN st
  ELSE [st EXCEPT !.automationRuns[key] = status,
                  !.executionTimes = @ + 1,
                  !.successCount = IF status = "success" THEN @ + 1 ELSE @,
                  !.errorCount = IF status = "success" THEN @ ELSE @ + 1]

\* metrics.reset(): the four tables are emptied.  The calls that returned and
\* threw are counted from the reset on.
reset(st) ==
  [st EXCEPT !.automationRuns = <<>>, !.executionTimes = 0,
             !.successCount = 0, !.errorCount = 0,
             !.returned = 0, !.thrown = 0]

\* generateSummary: an entry for every automation that has execution times.
generateSummary(st) ==
  IF st.executionTimes = 0 THEN <<>>
  ELSE [name \in {"automation"} |->
          [totalRuns    |-> st.successCount + st.errorCount,
           successCount |-> st.successCount,
           errorCount   |-> st.errorCount]]

\* Call r of runAutomation has rejected.  A scheduled run was awaited inside
\* the try block of the cron callback, which logs the error; a run started by
\* another caller hands the rejection to that caller.
RunThrows(st, r, error) ==
  [st EXCEPT !.thrown = @ + 1,
             !.runs[r] = [@ EXCEPT !.pc = "done", !.outcome = "thrown",
                                   !.error = error,
                                   !.callbackLogged = st.runs[r].scheduled]]

RunReturns(st, r) ==
  [st EXCEPT !.returned = @ + 1,
             !.runs[r] = [@ EXCEPT !.pc = "done", !.outcome = "returned"]]

\* The catch block of runAutomation up to its first await.
\* AutomationOrchestrator: logger.error, recordAutomationEnd(failed), then
\* sendAutomationStatus(name, 'failed', error.message), whose last argument
\* throws when error is undefined.  MCPAutomationOrchestrator: logger.error,
\* recordAutomationEnd(failed), then in the Claude Code environment
\* createGitHubIssue, which catches the TypeError of its own error.message
\* and then makes no issue; outside it, throw error.
OnRunError(st, r, error) ==
  LET ended == [recordAutomationEnd(st, st.runs[r].key, "failed") EXCEPT
                  !.runs[r].failureLogged = TRUE, !.runs[r].error = error]
  IN  IF st.kind = "AutomationOrchestrator"
        THEN IF HasMessage(error)
               THEN [ended EXCEPT !.runs[r].pc = "awaitFailed",
                                  !.runs[r].alerts = @ + 1]
               ELSE RunThrows(ended, r, "TypeError")
        ELSE IF st.claudeEnv
               THEN [ended EXCEPT !.runs[r].pc = "awaitIssue",
                                  !.runs[r].issues =
                                     IF HasMessage(error) THEN @ + 1 ELSE @]
               ELSE RunThrows(ended, r, error)

\* runAutomation(name, options) up to its first await: recordAutomationStart
\* and the 'started' notification.  Nothing keeps a call from starting while
\* others are in flight.
RunAutomation(scheduled, sameMs) ==
  /\ orch.kind \in Orchestrators
  /\ orch.calls < MaxOrchRuns
  /\ sameMs => orch.clock > 0
  /\ LET started == recordAutomationStart(orch, sameMs)
     IN  orch' = [started EXCEPT
                    !.calls = @ + 1,
                    !.runs = Append(@, [NoRun EXCEPT
                                          !.key = started.clock,
                                          !.scheduled = scheduled,
                                          !.pc = "awaitStarted"])]
  /\ UNCHANGED <<agentVars, shortcutsVars, scoringVars, request, hook, rt,
                 dash>>

\* The 'started' notification resolved; the notifier of
\* MCPAutomationOrchestrator catches its own errors.  On to execute, in the
\* Claude Code environment after createCalendarEvent.
StartedNotified(r) ==
  /\ orch.runs[r].pc = "awaitStarted"
  /\ orch' = [orch EXCEPT !.runs[r].pc =
                IF orch.kind = "MCPAutomationOrchestrator" /\ orch.claudeEnv
                  THEN "awaitCalendar" ELSE "awaitExecute"]
  /\ UNCHANGED <<agentVars, shortcutsVars, scoringVars, request, hook, rt,
                 dash>>

StartedNotifyFails(r) ==
  /\ orch.runs[r].pc = "awaitStarted"
  /\ orch.kind = "AutomationOrchestrator" /\ StatusNotificationMayFail
  /\ orch' = OnRunError(orch, r, SlackErrorMessage)
  /\ UNCHANGED <<agentVars, shortcutsVars, scoringVars, request, hook, rt,
                 dash>>

\* A helper of MCPAutomationOrchestrator that catches its own errors has
\* settled: createCalendarEvent before execute; updateCalendarEvent and
\* createNotionReport after it; createGitHubIssue and updateCalendarEvent in
\* the catch block, where the argument error.message of the latter throws
\* when error is undefined.
HelperSettles(r) ==
  LET run == orch.runs[r]
  IN  /\ run.pc \in {"awaitCalendar", "awaitUpdate", "awaitReport",
                     "awaitIssue", "awaitNote"}
      /\ orch' =
           CASE run.pc = "awaitCalendar" ->
                  [orch EXCEPT !.runs[r].pc = "awaitExecute"]
             [] run.pc = "awaitUpdate" ->
                  [orch EXCEPT !.runs[r].pc = "awaitReport"]
             [] run.pc = "awaitReport" -> RunReturns(orch, r)
             [] run.pc = "awaitIssue" ->
                  IF HasMessage(run.error)
                    THEN [orch EXCEPT !.runs[r].pc = "awaitNote"]
                    ELSE RunThrows(orch, r, "TypeError")
             [] OTHER -> RunThrows(orch, r, run.error)
      /\ UNCHANGED <<agentVars, shortcutsVars, scoringVars, request, hook, rt,
                     dash>>

\* automation.execute resolved: recordAutomationEnd(success), then the
\* 'completed' notification (AutomationOrchestrator), the calendar update
\* (MCPAutomationOrchestrator in the Claude Code environment) or return.
ExecuteResolves(r) ==
  /\ orch.runs[r].pc = "awaitExecute"
  /\ orch' = LET ended == recordAutomationEnd(orch, orch.runs[r].key, "success")
             IN  IF orch.kind = "AutomationOrchestrator"
                   THEN [ended EXCEPT !.runs[r].pc = "awaitCompleted"]
                   ELSE IF orch.claudeEnv
                          THEN [ended EXCEPT !.runs[r].pc = "awaitUpdate"]
                          ELSE RunReturns(ended, r)
  /\ UNCHANGED <<agentVars, shortcutsVars, scoringVars, request, hook, rt,
                 dash>>

ExecuteRejects(r, error) ==
  /\ orch.runs[r].pc = "awaitExecute"
  /\ orch' = OnRunError(orch, r, error)
  /\ UNCHANGED <<agentVars, shortcutsVars, scoringVars, request, hook, rt,
                 dash>>

CompletedNotified(r) ==
  /\ orch.runs[r].pc = "awaitCompleted"
  /\ orch' = RunReturns(orch, r)
  /\ UNCHANGED <<agentVars, shortcutsVars, scoringVars, request, hook, rt,
                 dash>>

\* The 'completed' notification rejected inside the try block.
CompletedNotifyFails(r) ==
  /\ orch.runs[r].pc = "awaitCompleted"
  /\ StatusNotificationMayFail
  /\ orch' = OnRunError(orch, r, SlackErrorMessage)
  /\ UNCHANGED <<agentVars, shortcutsVars, scoringVars, request, hook, rt,
                 dash>>

\* The 'failed' notification settled: throw error, or the rejection of the
\* notification itself.
FailedNotifySettles(r, delivered) ==
  /\ orch.runs[r].pc = "awaitFailed"
  /\ delivered \/ StatusNotificationMayFail
  /\ orch' = RunThrows(orch, r, IF delivered THEN orch.runs[r].error
                                             ELSE SlackErrorMessage)
  /\ UNCHANGED <<agentVars, shortcutsVars, scoringVars, request, hook, rt,
                 dash>>

\* A call of metrics.reset(), whatever is in flight.
ResetMetrics ==
  /\ orch.kind \in Orchestrators
  /\ orch.automationRuns # <<>>
  /\ orch' = reset(orch)
  /\ UNCHANGED <<agentVars, shortcutsVars, scoringVars, request, hook, rt,
                 dash>>

NextOrchestrator ==
  \/ \E scheduled, sameMs \in BOOLEAN : RunAutomation(scheduled, sameMs)
  \/ \E r \in DOMAIN orch.runs : StartedNotified(r)
  \/ \E r \in DOMAIN orch.runs : StartedNotifyFails(r)
  \/ \E r \in DOMAIN orch.runs : HelperSettles(r)
  \/ \E r \in DOMAIN orch.runs : ExecuteResolves(r)
  \/ \E r \in DOMAIN orch.runs, error \in ExecuteErrors : ExecuteRejects(r, error)
  \/ \E r \in DOMAIN orch.runs : CompletedNotified(r)
  \/ \E r \in DOMAIN orch.runs : CompletedNotifyFails(r)
  \/ \E r \in DOMAIN orch.runs, delivered \in BOOLEAN :
        FailedNotifySettles(r, delivered)
  \/ ResetMetrics

Orchestrator == InitOrchestrator /\ [][NextOrchestrator]_vars

\* ------------------------------------------------------------- enhanced webhook agent
DashLeads == 1..MaxDashLeads

Decisions == {"approved", "rejected"}

\* processNewLead(leadDetails): leads.set(leadId, {status: 'pending', ...}),
\* a new object, whether or not the id is in the Map already; totalLeads++,
\* pendingLeads++.
processNewLead(leadId) ==
  /\ dash.calls < MaxDashCalls
  /\ dash' = [dash EXCEPT
       !.calls = @ + 1,
       !.leads = (leadId :> [status |-> "pending", hubspotContactId |-> 0,
                             obj |-> dash.calls + 1]) @@ @,
       !.metrics.totalLeads = @ + 1,
       !.metrics.pendingLeads = @ + 1]
  /\ UNCHANGED <<agentVars, shortcutsVars, scoringVars, request, hook, rt,
                 orch>>

\* handleApprovalAction for an id that is not in leads: throws
\* 'Lead not found'; the catch logs and rethrows.
LeadNotFound(leadId, status) ==
  /\ dash.calls < MaxDashCalls
  /\ leadId \notin DOMAIN dash.leads
  /\ dash' = [dash EXCEPT !.calls = @ + 1]
  /\ UNCHANGED <<agentVars, shortcutsVars, scoringVars, request, hook, rt,
                 orch>>

\* dashboardData.approvals.set(`${leadId}-${Date.now()}`, {status, ...}): a
\* record written in the millisecond of the one before it for the same lead
\* takes its place.
StoreApprovalRecord(d, leadId, status, sameMs) ==
  LET ms == IF sameMs THEN d.clock ELSE d.clock + 1
  IN  [d EXCEPT !.clock = ms,
                !.approvals = (<<leadId, ms>> :> status) @@ @]

\* handleApprovalAction(leadId, status, ...) up to its await or its end: the
\* status is set and the counters are moved whatever the lead's status was;
\* an approval then awaits hubspotService.createLead, holding the lead object
\* it read; a rejection writes the approval record.
handleApprovalAction(leadId, status, sameMs) ==
  /\ dash.calls < MaxDashCalls
  /\ leadId \in DOMAIN dash.leads
  /\ sameMs => status = "rejected" /\ dash.clock > 0
  /\ LET moved == [dash EXCEPT
           !.calls = @ + 1,
           !.leads[leadId].status = status,
           !.metrics.approvedLeads = IF status = "approved" THEN @ + 1 ELSE @,
           !.metrics.rejectedLeads = IF status = "rejected" THEN @ + 1 ELSE @,
           !.metrics.pendingLeads = @ - 1]
     IN  dash' =
           IF status = "approved"
             THEN [moved EXCEPT !.awaiting = @ \cup
                     {[n |-> dash.calls + 1, leadId |-> leadId,
                       obj |-> dash.leads[leadId].obj, pc |-> "awaitCreate"]}]
             ELSE StoreApprovalRecord(moved, leadId, status, sameMs)
  /\ UNCHANGED <<agentVars, shortcutsVars, scoringVars, request, hook, rt,
                 orch>>

\* The call c goes on to what it awaits next.

\* createLead resolved: the CRM ids are set on the lead object the call read
\* before the await, which is the Map's entry only if processNewLead has not
\* put a new object there; then startOutreachSequence up to its addNote.
CreateLeadResolves(c) ==
  /\ c \in dash.awaiting
  /\ c.pc = "awaitCreate"
  /\ dash' = [dash EXCEPT
       !.awaiting = (@ \ {c}) \cup {[c EXCEPT !.pc = "awaitNote"]},
       !.leads = IF c.leadId \in DOMAIN @ /\ @[c.leadId].obj = c.obj
                   THEN [@ EXCEPT ![c.leadId].hubspotContactId = 1] ELSE @]
  /\ UNCHANGED <<agentVars, shortcutsVars, scoringVars, request, hook, rt,
                 orch>>

\* createLead rejected: the catch logs and rethrows; nothing is undone, and
\* the other calls in flight go on.
CreateLeadRejects(c) ==
  /\ c \in dash.awaiting
  /\ c.pc = "awaitCreate"
  /\ dash' = [dash EXCEPT !.awaiting = @ \ {c}]
  /\ UNCHANGED <<agentVars, shortcutsVars, scoringVars, request, hook, rt,
                 orch>>

\* addNote resolved: startOutreachSequence sends its Slack message.
NoteAdded(c) ==
  /\ c \in dash.awaiting
  /\ c.pc = "awaitNote"
  /\ dash' = [dash EXCEPT !.awaiting = (@ \ {c}) \cup {[c EXCEPT !.pc = "awaitSlack"]}]
  /\ UNCHANGED <<agentVars, shortcutsVars, scoringVars, request, hook, rt,
                 orch>>

\* startOutreachSequence ends: its Slack message was sent, or addNote or
\* sendToSlack rejected and its catch logged that; handleApprovalAction
\* writes the approval record.
OutreachEnds(c, sameMs) ==
  /\ c \in dash.awaiting
  /\ c.pc \in {"awaitNote", "awaitSlack"}
  /\ sameMs => dash.clock > 0
  /\ dash' = StoreApprovalRecord([dash EXCEPT !.awaiting = @ \ {c}],
                                 c.leadId, "approved", sameMs)
  /\ UNCHANGED <<agentVars, shortcutsVars, scoringVars, request, hook, rt,
                 orch>>

NextDashboard ==
  \/ \E id \in DashLeads : processNewLead(id)
  \/ \E id \in DashLeads, d \in Decisions : LeadNotFound(id, d)
  \/ \E id \in DashLeads, d \in Decisions, sameMs \in BOOLEAN :
        handleApprovalAction(id, d, sameMs)
  \/ \E c \in dash.awaiting : CreateLeadResolves(c)
  \/ \E c \in dash.awaiting : CreateLeadRejects(c)
  \/ \E c \in dash.awaiting : NoteAdded(c)
  \/ \E c \in dash.awaiting, sameMs \in BOOLEAN : OutreachEnds(c, sameMs)

Dashboard == Init /\ [][NextDashboard]_vars

\* ------------------------------------------------------------- properties
\* The calls the properties speak of: those in flight and the one just ended.
Seen == calls \cup {last}

\* C1: once an approve call for an id has succeeded, a decision call for that
\* id that arrives later makes no CRM create call, so that the create succeeds
\* once per id, and it returns the result the first call recorded (the first
\* contact created for an approval has contactId 1).
C1_IdempotentDecision ==
  /\ \A c \in Seen : c.afterApprove => c.crmCalls = 0
  /\ last.afterApprove =>
        /\ last.ret.kind = "value"
        /\ last.ret.success
        /\ last.ret.hubspotResult.contactId = 1

\* C2: of the approve calls in flight that found the same approval pending,
\* at most one has invoked the CRM create call.
C2_ConcurrentApprovesCreateOnce ==
  \A id \in Ids :
    Cardinality({c \in calls : /\ c.approvalId = id
                               /\ c.action = "create_hubspot_deal"
                               /\ c.statusAtArrival = "pending"
                               /\ c.crmCalls = 1}) <= 1

\* C3: an approval is created pending, and in every step of the running
\* process a status that is approved or skipped stays what it is.
C3_TerminalAbsorbing ==
  [][/\ \A id \in DOMAIN pendingApprovals' \ DOMAIN pendingApprovals :
          pendingApprovals'[id].status = "pending"
     /\ ~Restart =>
          \A id \in DOMAIN pendingApprovals \cap DOMAIN pendingApprovals' :
            pendingApprovals[id].status # "pending" =>
              pendingApprovals'[id].status = pendingApprovals[id].status]_vars

\* C4: when an approve call on a pending approval whose CRM create threw
\* ends, it returns a result with success false and the CRM's error message,
\* the approval is still pending and carries no hubspotResult or approvedBy.
C4_FailedCrmPreservesPending ==
  last.crmOutcome = "failed" /\ last.statusAtArrival = "pending" =>
    /\ last.ret.kind = "value"
    /\ ~last.ret.success
    /\ last.ret.error = CrmErrorMessage
    /\ last.approvalId \in DOMAIN pendingApprovals =>
          LET a == pendingApprovals[last.approvalId]
          IN  /\ a.status = "pending"
              /\ a.hubspotResult = NoHubspotResult
              /\ a.approvedBy = ""

\* C5: when a decision call whose confirmation notification failed ends, it
\* returns a success result, made one CRM create call at most, and the
\* terminal status is in the Map and in the file.
C5_ConfirmationFailureContained ==
  last.confirmOutcome = "failed" =>
    /\ last.ret.kind = "value"
    /\ last.ret.success
    /\ last.crmCalls <= 1
    /\ \A m \in {pendingApprovals, approvalsFile} :
          /\ last.approvalId \in DOMAIN m
          /\ m[last.approvalId].status \in {"approved", "skipped"}

\* The /interactivity handler has dealt with the rejection of call c.

\* C6: a decision for an id that is not in the Map ends at once with the
\* not-found error, makes no CRM call and sends no notification, leaves the
\* Map and the file as they were, and the handler logs the error (approve)
\* or answers with it (skip).
C6_NotFoundHandled ==
  [][/\ \A c \in calls' : c.statusAtArrival # "absent"
     /\ last'.statusAtArrival = "absent" =>
          /\ last'.ret = Throw(NotFoundMessage)
          /\ last'.crmCalls = 0
          /\ last'.notifications = 0
          /\ (last'.log = "error_logged" \/ last'.http = "error_skipping_lead")
          /\ UNCHANGED <<pendingApprovals, approvalsFile, calls, timers>>]_vars

C6_Witness ==
  /\ last.statusAtArrival = "absent"
  /\ last.action = "skip_lead"
  /\ last.ret.error = NotFoundMessage
  /\ last.http = "error_skipping_lead"
  /\ nextId > 0

\* C7: when the prompt for a new approval id is handed to Slack, the approval
\* is in the Map and in the file.
C7_RegisteredBeforePrompt ==
  [][\A c \in pql' :
       c.pc = "awaitPrompt" /\ c.ids[c.i] = nextId' /\ nextId' # nextId =>
         /\ c.ids[c.i] \in DOMAIN pendingApprovals'
         /\ c.ids[c.i] \in DOMAIN approvalsFile']_vars

\* C8: whenever no decision call is in flight, the file holds exactly the
\* entries of the Map, as JSON.
C8_WriteThrough ==
  calls = {} => approvalsFile = JsonStringify(pendingApprovals)

\* C9: an approval saved as pending stays in the file, as it is, for as long
\* as the Map holds it pending, and a restart keeps every pending approval
\* that is in the Map and in the file: same id, status pending, same leadData.
C9_DurabilityRoundTrip ==
  [][/\ \A id \in DOMAIN pendingApprovals' \cap DOMAIN approvalsFile :
          (/\ approvalsFile[id].status = "pending"
           /\ pendingApprovals'[id].status = "pending") =>
             /\ id \in DOMAIN approvalsFile'
             /\ approvalsFile'[id] = approvalsFile[id]
     /\ Restart =>
          \A id \in DOMAIN pendingApprovals \cap DOMAIN approvalsFile :
            pendingApprovals[id].status = "pending" =>
              /\ id \in DOMAIN pendingApprovals'
              /\ pendingApprovals'[id].status = "pending"
              /\ pendingApprovals'[id].leadData = pendingApprovals[id].leadData]_vars

\* C10: when the prompt of an approval fails, the catch block pushes an error
\* result with Slack's message, and the approval, if no cleanup timer has
\* removed it meanwhile, stays in the Map as it is and stays in the file if it
\* was there.
C10_PromptFailureKeepsRegistration ==
  [][\A c \in pql, d \in pql' :
       (/\ c.pc = "awaitPrompt"
        /\ d.ids[1] = c.ids[1]
        /\ Len(d.results) = Len(c.results) + 1
        /\ d.results[Len(d.results)].status = "error") =>
          LET id == c.ids[c.i]
          IN  /\ d.results[Len(d.results)].error = SlackErrorMessage
              /\ id \in DOMAIN pendingApprovals =>
                    /\ id \in DOMAIN pendingApprovals'
                    /\ pendingApprovals'[id] = pendingApprovals[id]
                    /\ id \in DOMAIN approvalsFile =>
                          id \in DOMAIN approvalsFile']_vars

\* C11: a skip call that found its approval pending makes no CRM call and
\* returns no hubspotResult, the status is no longer pending once the
\* notification is attempted, and the call fails only if the file write
\* failed.
C11_SkipOnlyBookkeeping ==
  \A c \in Seen :
    c.action = "skip_lead" /\ c.statusAtArrival = "pending" =>
      /\ c.crmCalls = 0
      /\ c.ret.hubspotResult = NoHubspotResult
      /\ c.notifications > 0 /\ c.approvalId \in DOMAIN pendingApprovals =>
            pendingApprovals[c.approvalId].status # "pending"
      /\ c.ret.kind = "throw" => c.saved = "write_failed"

\* C12: an approval has a hubspotResult exactly when its status is approved,
\* and then it is that of the one successful create (the first contact
\* created for the approval).
C12_IdentifiersOnlyWhenApproved ==
  \A id \in DOMAIN pendingApprovals :
    LET a == pendingApprovals[id]
    IN  /\ a.hubspotResult.t = "object" <=> a.status = "approved"
        /\ a.status = "approved" =>
              a.hubspotResult.contactId = 1 /\ a.hubspotResult.dealId = 1

\* C13: a rewrite of the file that completes drops only approvals that no
\* store holds any more, whichever controller's store writes.
C13_SingleWriter ==
  [][approvalsFile' # Truncated =>
       \A id \in DOMAIN approvalsFile \ DOMAIN approvalsFile' :
         /\ id \notin DOMAIN pendingApprovals'
         /\ id \notin DOMAIN shortcutsApprovals']_vars

\* The scoreAndQualifyLeads calls made so far and those that returned, and
\* the prospects run r has scored.
Run      == DOMAIN runs
Returned == {r \in Run : runs[r].pc = "returned"}
Scored(r) == DOMAIN runs[r].scores

\* C14: every score calculateLeadScore returned for a prospect with
\* non-negative counts is an integer from 0 to 100, and it is 100 when the
\* sum of the factors exceeds 100.
C14_ScoreRange ==
  \A r \in Run : \A i \in Scored(r) :
    /\ prospects[i].estimatedAthletes >= 0 /\ prospects[i].facilities >= 0 =>
          runs[r].scores[i] \in 0..100
    /\ SumOfFactors(prospects[i], runs[r].years[i]) > 100 =>
          runs[r].scores[i] = 100

C14_Witness ==
  \E r \in Run : \E i \in Scored(r) :
    /\ runs[r].factors[i].reach + runs[r].factors[i].competition
         + runs[r].factors[i].facilities + runs[r].factors[i].ageGroups
         + runs[r].factors[i].established = 102
    /\ runs[r].scores[i] = 100

\* C15: each of the five contributions calculateLeadScore adds is within its
\* share: reach 40, competition level 25, facilities 15, age groups 10,
\* organizational age 10.
C15_FactorCaps ==
  \A r \in Run : \A i \in Scored(r) :
    /\ runs[r].factors[i].reach <= 40
    /\ runs[r].factors[i].competition <= 25
    /\ runs[r].factors[i].facilities <= 15
    /\ runs[r].factors[i].ageGroups <= 10
    /\ runs[r].factors[i].established <= 10

\* The lead carries every property of the prospect.
IsLeadOf(lead, prospect) == \A f \in DOMAIN prospect : lead[f] = prospect[f]

\* C16: scoreAndQualifyLeads returns a lead for a prospect exactly when the
\* prospect's score is at least 60, with that score, and every lead returned
\* has priority High from 80, Medium from 70 to 79, Low from 60 to 69.
C16_QualificationGate ==
  \A r \in Returned :
    /\ \A i \in Scored(r) :
          runs[r].scores[i] >= 60 <=>
            \E j \in DOMAIN runs[r].leads :
              /\ IsLeadOf(runs[r].leads[j], prospects[i])
              /\ runs[r].leads[j].score = runs[r].scores[i]
    /\ Len(runs[r].leads) =
          Cardinality({i \in Scored(r) : runs[r].scores[i] >= 60})
    /\ \A j \in DOMAIN runs[r].leads :
          LET lead == runs[r].leads[j]
          IN  /\ lead.score >= 60
              /\ lead.score >= 80 => lead.priority = "High"
              /\ lead.score \in 70..79 => lead.priority = "Medium"
              /\ lead.score \in 60..69 => lead.priority = "Low"

\* A prospect scored 59 is left out and one scored 60 is returned, as Low.
C16_Witness ==
  \E r \in Returned :
    /\ Len(prospects) = 2
    /\ runs[r].scores = <<59, 60>>
    /\ Len(runs[r].leads) = 1
    /\ runs[r].leads[1].score = 60
    /\ runs[r].leads[1].priority = "Low"

\* C17: the prospect with 300 athletes, National level, 10 facilities, 3 age
\* groups and founded 20 years before the year of the call gets the most of
\* every factor, and the score 100.
C17_BoundaryScore ==
  \A r \in Run : \A i \in Scored(r) :
    (/\ prospects[i].estimatedAthletes = 300
     /\ prospects[i].competitionLevel = "National"
     /\ prospects[i].facilities = 10
     /\ Len(prospects[i].ageGroups) = 3
     /\ runs[r].years[i] - prospects[i].foundedYear = 20) =>
       /\ runs[r].factors[i] = [reach |-> 40, competition |-> 25,
                                facilities |-> 15, ageGroups |-> 10,
                                established |-> 10]
       /\ runs[r].scores[i] = 100

\* C18: two calls with the same prospects return the same scores and the same
\* leads with the same priorities, whenever they are made.
C18_ScoringDeterminism ==
  \A r1, r2 \in Returned :
    /\ runs[r1].scores = runs[r2].scores
    /\ runs[r1].leads = runs[r2].leads

\* C19: the prospect with 450 athletes, National level, 3 facilities, 3 age
\* groups, founded 2008 is registered as a High lead with a score of at least
\* 80, and when its one approve callback by alice returns, nothing having
\* failed, the call has made one CRM create call and returned success, the
\* approval is approved by alice and has the contactId the CRM returned.
C19_HappyPath ==
  /\ \A id \in DOMAIN pendingApprovals :
        IsLeadOf(pendingApprovals[id].leadData, Prospect(1)) =>
          /\ pendingApprovals[id].leadData.score >= 80
          /\ pendingApprovals[id].leadData.priority = "High"
  /\ (/\ last.action = "create_hubspot_deal"
      /\ last.userName = "alice"
      /\ last.statusAtArrival = "pending"
      /\ events = 2) =>
        /\ last.crmCalls = 1
        /\ last.ret.kind = "value" /\ last.ret.success
        /\ last.approvalId \in DOMAIN pendingApprovals
        /\ LET a == pendingApprovals[last.approvalId]
           IN  /\ a.status = "approved"
               /\ a.approvedBy = "alice"
               /\ a.hubspotResult.t = "object"
               /\ a.hubspotResult.contactId = last.ret.hubspotResult.contactId
               /\ a.hubspotResult.contactId > 0

C19_Witness ==
  /\ last.action = "create_hubspot_deal"
  /\ last.ret.success
  /\ events = 2
  /\ last.approvalId \in DOMAIN pendingApprovals
  /\ pendingApprovals[last.approvalId].leadData.estimatedAthletes = 450
  /\ pendingApprovals[last.approvalId].leadData.score = 90
  /\ pendingApprovals[last.approvalId].status = "approved"

\* C20: a create_hubspot_deal request has been answered with the processing
\* message by the time its CRM create call is started, and the answer is the
\* same when the decision succeeds, fails, throws or finds no approval.
C20_AcknowledgeFirst ==
  \A c \in Seen : c.action = "create_hubspot_deal" => c.http = "processing"

C20_Witness ==
  /\ last.action = "create_hubspot_deal"
  /\ last.crmOutcome = "failed"
  /\ last.ret.kind = "value" /\ ~last.ret.success
  /\ last.http = "processing"

\* C21: every POST /interactivity request gets exactly one response, whatever
\* fails: a body that does not parse, a payload without actions or user, an
\* unknown action_id, an unknown approval id, a CRM or Slack failure; and
\* when parsing or the skip path fails, the response carries an error message.
C21_ExactlyOneResponse ==
  /\ request.received =>
        /\ request.res.ended = 1
        /\ ~request.res.rejected
        /\ ThrowsBeforeBranch(request.payload) =>
              request.res.text = "Error processing action"
  /\ last.pc = "done" =>
        /\ last.http \in {"processing", "lead_skipped", "error_skipping_lead"}
        /\ (last.action = "skip_lead" /\ last.ret.kind = "throw") =>
              last.http = "error_skipping_lead"

\* C22: POST /webhook answers 200 {success: true} exactly when the body was
\* parsed and every event was handled without an exception; when parsing or
\* the handling of an event (forwarding it to Slack included) raises, the
\* answer is 500 with the error message.
C22_WebhookStatus ==
  hook.pc = "done" =>
    /\ (hook.status = 200 /\ hook.body = "success")
          <=> (hook.parses /\ ~hook.raised)
    /\ (~hook.parses \/ hook.raised) =>
          (hook.status = 500 /\ hook.body # "success")

\* C24: every approval that has reached a terminal status is eventually gone
\* from the Map and from the file, restarts included.
C24_CleanupLive ==
  \A id \in Ids :
    (/\ id \in DOMAIN pendingApprovals
     /\ pendingApprovals[id].status \in {"approved", "skipped"})
      ~> (id \notin DOMAIN pendingApprovals /\ id \notin DOMAIN approvalsFile)

\* C25: in a running process an approval leaves the Map only while its
\* status is approved or skipped: a pending approval, one whose approve
\* attempt failed at the CRM included, is not deleted by a cleanup timer and
\* getApprovalById still returns it, with its lead, after every step; its
\* status changes only in a step of a decision call for it.
C25_CleanupOnlyResolved ==
  [][~Restart =>
       \A id \in Ids :
         /\ (id \in DOMAIN pendingApprovals /\ id \notin DOMAIN pendingApprovals')
               => pendingApprovals[id].status \in {"approved", "skipped"}
         /\ (/\ id \in DOMAIN pendingApprovals
             /\ pendingApprovals[id].status = "pending")
               => /\ getApprovalById(id)' # Undefined
                  /\ getApprovalById(id)'.leadData = pendingApprovals[id].leadData
                  /\ (getApprovalById(id)'.status = "pending"
                        \/ \E c \in Seen' : c.approvalId = id)]_vars

C25_Witness ==
  /\ last.action = "create_hubspot_deal"
  /\ last.crmOutcome = "failed"
  /\ getApprovalById(last.approvalId) # Undefined
  /\ getApprovalById(last.approvalId).status = "pending"

\* C26: the leadData of every stored approval equals the lead as it was
\* registered, in every later state: no decision, notification, cleanup or
\* save changes it, and neither does a later change the caller makes to the
\* lead object it passed.
C26_LeadDataFrozen ==
  [][\A id \in DOMAIN pendingApprovals \cap DOMAIN pendingApprovals' :
       pendingApprovals'[id].leadData = pendingApprovals[id].leadData]_vars

\* C27: processQualifiedLeads pushes one result per input lead, in input
\* order; a lead whose prompt failed gets an error result, and the leads after
\* it are registered and prompted all the same; every approval_sent result
\* names the id under which the Map holds that lead's approval.
C27_PerLeadIsolation ==
  \A c \in pql :
    /\ c.pc = "returned" => c.i = Len(c.leads)
    /\ Len(c.results) = IF c.pc = "returned" THEN c.i ELSE c.i - 1
    /\ \A j \in 1..c.i :
          /\ c.ids[j] \in DOMAIN pendingApprovals
          /\ pendingApprovals[c.ids[j]].status = "pending"
          /\ pendingApprovals[c.ids[j]].leadData = c.leads[j]
    /\ \A j \in DOMAIN c.results :
          /\ c.results[j].leadId = c.leads[j].clubName
          /\ c.results[j].status \in {"approval_sent", "error"}
          /\ c.results[j].status = "approval_sent" =>
                c.results[j].approvalId = c.ids[j]

C27_Witness ==
  \E c \in pql :
    /\ c.pc = "returned"
    /\ Len(c.results) = 3
    /\ c.results[1].status = "error"
    /\ c.results[2].status = "approval_sent"
    /\ c.results[2].approvalId \in DOMAIN pendingApprovals
    /\ c.results[3].status = "approval_sent"

\* C28: retry calls fn at most retries times; it returns the value of the
\* first call that succeeds and calls no more; when all retries calls fail it
\* throws the error of the last call; between failed call i and the next
\* call it sleeps delay * i; with retries = 0 it returns undefined without
\* calling fn.
FirstSuccess ==
  IF \E k \in 1..rt.retries : rt.fn[k] = "value"
    THEN CHOOSE k \in 1..rt.retries :
           /\ rt.fn[k] = "value"
           /\ \A j \in 1..(k - 1) : rt.fn[j] # "value"
    ELSE 0

C28_Retry ==
  /\ rt.calls <= rt.retries
  /\ \A k \in DOMAIN rt.sleeps : rt.sleeps[k] = rt.delay * k
  /\ rt.pc \in {"returned", "thrown"} =>
        IF FirstSuccess > 0
          THEN /\ rt.pc = "returned" /\ rt.ret = ValueOf(FirstSuccess)
               /\ rt.calls = FirstSuccess
               /\ Len(rt.sleeps) = FirstSuccess - 1
          ELSE IF rt.retries = 0
            THEN rt.pc = "returned" /\ rt.ret = Undefined /\ rt.calls = 0
            ELSE /\ rt.pc = "thrown"
                 /\ rt.err = ErrorOf(rt.fn[rt.retries], rt.retries)
                 /\ rt.calls = rt.retries
                 /\ Len(rt.sleeps) = rt.retries - 1

\* C23: a failed run that the scheduler started is logged and reported with
\* a 'failed' alert, and its exception ends in the scheduled task callback,
\* also when the alert itself fails.
C23_ScheduledFailureContained ==
  \A r \in DOMAIN orch.runs :
    LET run == orch.runs[r]
    IN  (run.scheduled /\ run.outcome = "thrown") =>
           /\ run.failureLogged
           /\ run.alerts >= 1
           /\ run.callbackLogged
           /\ run.pc = "done"

\* C29: every runAutomation call on a loaded automation adds one to exactly
\* one of successCounts and errorCounts: successCounts counts the calls that
\* returned a result, errorCounts those that threw, and totalRuns the
\* completed calls, also when a status notification throws.
C29_RunAccounting ==
  (/\ orch.kind = "AutomationOrchestrator"
   /\ \A r \in DOMAIN orch.runs : orch.runs[r].pc = "done") =>
     /\ orch.successCount = orch.returned
     /\ orch.errorCount = orch.thrown
     /\ orch.returned + orch.thrown > 0 =>
          /\ "automation" \in DOMAIN generateSummary(orch)
          /\ generateSummary(orch)["automation"].totalRuns
               = orch.returned + orch.thrown

\* C30: after any sequence of processNewLead and handleApprovalAction calls
\* the dashboard counters agree with the leads: pendingLeads is not negative,
\* totalLeads is the sum of the three others, and each of the three is the
\* number of leads with that status.
LeadsWithStatus(status) ==
  Cardinality({id \in DOMAIN dash.leads : dash.leads[id].status = status})

C30_DashboardCounters ==
  /\ dash.metrics.pendingLeads >= 0
  /\ dash.metrics.totalLeads = dash.metrics.approvedLeads
        + dash.metrics.rejectedLeads + dash.metrics.pendingLeads
  /\ dash.metrics.pendingLeads = LeadsWithStatus("pending")
  /\ dash.metrics.approvedLeads = LeadsWithStatus("approved")
  /\ dash.metrics.rejectedLeads = LeadsWithStatus("rejected")

====
